---- MODULE Spec2Model ----
(***************************************************************************)
(* Model of the allocator in src/src/osmem.c (os_malloc, os_free,          *)
(* os_calloc, os_realloc and their helpers).                               *)
(*                                                                         *)
(* Memory is modelled at word granularity: `mem` maps the address of every *)
(* non-zero 8-byte word to its value, so block headers live in-band, at    *)
(* the address the code writes them, and can overlap exactly as they can   *)
(* in the program.  The user of the allocator never writes into payloads;  *)
(* memset/memcpy move whatever words are there.                            *)
(*                                                                         *)
(* A size_t is represented by the integer with the same two's-complement   *)
(* bit pattern (a negative integer k stands for 2^64 + k), so that an      *)
(* argument such as (size_t)-1 wraps the way it does in the program.       *)
(***************************************************************************)
EXTENDS Integers, Sequences, FiniteSets, TLC

VARIABLES mem, brk, global_base, last, prealloc, maps, proc, live, freed, hist, nops

vars == <<mem, brk, global_base, last, prealloc, maps, proc, live, freed, hist, nops>>

----------------------------------------------------------------------------
(* Program constants *)

NULL == 0
ALIGNMENT == 8
META_SIZE == 32
MMAP_THRESHOLD == 128 * 1024
PAGE_SIZE == 4096
\* 4294967295 in the source.  The checker's integers stop at 2^31 - 1, and
\* find_best_fit only uses SIZE_MAX as "larger than any block size"; every
\* size word the bounded model can hold is below 2^31 - 1 as well.
SIZE_MAX == 2147483647

STATUS_FREE == 0
STATUS_ALLOC == 1
STATUS_MAPPED == 2

\* offsets of the fields of struct block_meta {size, status, prev, next}
OFF_SIZE == 0
OFF_STATUS == 8
OFF_PREV == 16
OFF_NEXT == 24

\* the initial program break (sbrk(0) before the first growth), page aligned
HeapStart == 2 * PAGE_SIZE
\* where the kernel places anonymous mappings: slot k starts at
\* MmapBase + k * MmapStride, the lowest free slot is used
MmapBase == 1024 * 1024
MmapStride == 2 * MMAP_THRESHOLD

----------------------------------------------------------------------------
(* Bounds of the model *)

\* the heap break may grow to HeapStart + MaxGrow bytes
MaxGrow == 270000
\* number of simultaneously live mappings
MaxMaps == 2
\* number of public operations in a run
MaxOps == 4

----------------------------------------------------------------------------
(* size_t arithmetic *)

\* unsigned comparison of two size_t values
ULt(a, b) == IF (a < 0) = (b < 0) THEN a < b ELSE b < 0
ULe(a, b) == a = b \/ ULt(a, b)
UGe(a, b) == ULe(b, a)
UGt(a, b) == ULt(b, a)

\* ALIGN(size): (size + 7) & ~7
ALIGN(size) == ((size + (ALIGNMENT - 1)) \div ALIGNMENT) * ALIGNMENT

PageUp(n) == ((n + (PAGE_SIZE - 1)) \div PAGE_SIZE) * PAGE_SIZE

----------------------------------------------------------------------------
(* Word memory *)

Rd(m, a) == IF a \in DOMAIN m THEN m[a] ELSE 0

Wr(m, a, v) ==
  IF v = 0 THEN [x \in (DOMAIN m) \ {a} |-> m[x]]
  ELSE [x \in (DOMAIN m) \cup {a} |-> IF x = a THEN v ELSE m[x]]

\* the words of [lo, hi) cleared
Clear(m, lo, hi) == [x \in {y \in DOMAIN m : y < lo \/ y >= hi} |-> m[x]]

\* memset(p, 0, n)
memset0(m, p, n) == Clear(m, p, p + n)

\* memcpy(dst, src, n) of regions that overlap is undefined: a build copies
\* as memmove does, or word by word from the low end, or from the high end
CopyOrders == {"move", "forward", "backward"}

\* the offset in the source that the word at offset i of the destination
\* comes from, for a destination d bytes above the source
memcpy_from(i, n, d, order) ==
  IF order = "forward" /\ d > 0 /\ d < n THEN i % d
  ELSE IF order = "backward" /\ d < 0 /\ 0 - d < n
  THEN (n + d) + ((i - (n + d)) % (0 - d))
  ELSE i

\* the copy of regions that do not overlap, and of memmove: every word of
\* the source arrives
memcpy_apart(m, dst, src, n) ==
  LET moved == {a \in DOMAIN m : a >= src /\ a < src + n}
      kept  == {a \in DOMAIN m : a < dst \/ a >= dst + n}
  IN [x \in kept \cup {a - src + dst : a \in moved} |->
        IF x >= dst /\ x < dst + n THEN m[x - dst + src] ELSE m[x]]

\* the words a copy from the low end leaves in the destination, d bytes
\* above the source: the first d bytes of the source, again and again
memcpy_forward(m, dst, src, n, d) ==
  UNION {{dst + (a - src) + k * d : k \in 0..((n - 1 - (a - src)) \div d)} :
           a \in {a \in DOMAIN m : a >= src /\ a < src + d}}

\* the words a copy from the high end leaves in the destination, e bytes
\* below the source: the last e bytes of the source, again and again
memcpy_backward(m, dst, src, n, e) ==
  UNION {{dst + (a - src) - k * e : k \in 0..((a - src) \div e)} :
           a \in {a \in DOMAIN m : a >= src + n - e /\ a < src + n}}

\* the copy in which words written earlier are read again
memcpy_over(m, dst, src, n, order) ==
  LET kept   == {a \in DOMAIN m : a < dst \/ a >= dst + n}
      copied == IF order = "forward" THEN memcpy_forward(m, dst, src, n, dst - src)
                ELSE memcpy_backward(m, dst, src, n, src - dst)
  IN [x \in kept \cup copied |->
        IF x >= dst /\ x < dst + n
        THEN m[src + memcpy_from(x - dst, n, dst - src, order)]
        ELSE m[x]]

\* memcpy(dst, src, n): the n bytes at src copied to dst
memcpy(m, dst, src, n, order) ==
  IF \/ order = "forward" /\ dst > src /\ dst < src + n
     \/ order = "backward" /\ dst < src /\ src < dst + n
  THEN memcpy_over(m, dst, src, n, order)
  ELSE memcpy_apart(m, dst, src, n)

\* the fields of the header at address b, in memory m
b_size(m, b)   == Rd(m, b + OFF_SIZE)
b_status(m, b) == Rd(m, b + OFF_STATUS)
b_prev(m, b)   == Rd(m, b + OFF_PREV)
b_next(m, b)   == Rd(m, b + OFF_NEXT)

\* the machine state the C functions work on is a record
\*   [mem, brk, global_base, last, prealloc, maps, proc, ret, over]
SetSize(s, b, v)   == [s EXCEPT !.mem = Wr(@, b + OFF_SIZE, v)]
SetStatus(s, b, v) == [s EXCEPT !.mem = Wr(@, b + OFF_STATUS, v)]
SetPrev(s, b, v)   == [s EXCEPT !.mem = Wr(@, b + OFF_PREV, v)]
SetNext(s, b, v)   == [s EXCEPT !.mem = Wr(@, b + OFF_NEXT, v)]

\* the process stops: DIE(...) exits, an access to an unmapped page is a
\* SIGSEGV, a traversal of a cyclic list never returns
Running(s) == s.proc = "run"

\* `return v;` (a process that has stopped returns nothing)
Return(s, v) == IF Running(s) THEN [s EXCEPT !.ret = v] ELSE s

Die(s)  == [s EXCEPT !.proc = "die", !.ret = NULL]
Segv(s) == [s EXCEPT !.proc = "segv", !.ret = NULL]
Hang(s) == [s EXCEPT !.proc = "hang", !.ret = NULL]

\* the bytes [lo, hi) are backed by pages: the kernel maps whole pages, up
\* to the page that holds the break and up to the end of a mapping's last page
Accessible(s, lo, hi) ==
  \/ lo >= HeapStart /\ hi <= PageUp(s.brk)
  \/ \E r \in s.maps : lo >= r.base /\ hi <= r.base + PageUp(r.len)

HdrOk(s, b) == Accessible(s, b, b + META_SIZE)

----------------------------------------------------------------------------
(* The operating system's primitives *)

\* sbrk(inc): the break moves up by inc (the old break is the result).
\* `over` records that a run left the bounds of the model; the actions
\* below are not taken into such a state.
sbrk(s, inc) ==
  IF s.nomem THEN s
  ELSE [s EXCEPT !.brk = @ + inc, !.over = @ \/ s.brk + inc > HeapStart + MaxGrow]

\* what sbrk returns when called in state s: the break, or (void *)-1 when
\* the system has no memory to give
sbrk_result(s) == IF s.nomem THEN -1 ELSE s.brk

FreeSlots(s) ==
  {k \in 0..(MaxMaps - 1) : \A r \in s.maps : r.base # MmapBase + k * MmapStride}

\* mmap fails (MAP_FAILED) for a length no address space can hold: zero, or
\* one with the top bit set
mmap_fails(len) == len <= 0

\* mmap(NULL, len, ...): a zero-filled region in the lowest free slot
mmap(s, len) ==
  IF FreeSlots(s) = {} \/ len > MmapStride THEN [s EXCEPT !.over = TRUE]
  ELSE LET k == CHOOSE i \in FreeSlots(s) : \A j \in FreeSlots(s) : i <= j
           a == MmapBase + k * MmapStride
       IN [s EXCEPT !.maps = @ \cup {[base |-> a, len |-> len]},
                    !.mem = Clear(@, a, a + PageUp(len)),
                    !.ret = a]

\* munmap(addr, len): the pages go away, with what was stored in them
munmap(s, addr, len) ==
  IF \E r \in s.maps : r.base = addr
  THEN [s EXCEPT !.maps = {r \in @ : r.base # addr},
                 !.mem = Clear(@, addr, addr + PageUp(len))]
  ELSE Die(s)

----------------------------------------------------------------------------
(* The functions of osmem.c.  Each takes the machine state and returns the  *)
(* machine state the C function leaves, with its result in `ret`.  A         *)
(* function is cut into the groups of statements it runs one after the      *)
(* other; each group reads the state the group before it left.              *)

SetLast(s, b) == [s EXCEPT !.last = b]

\* more steps than this through a list means the list is cyclic
Fuel(s) == Cardinality(DOMAIN s.mem) + 2

\* brk_block: block->status = STATUS_ALLOC; block->size = size
brk_block_init(s, block, size) ==
  SetSize(SetStatus(s, block, STATUS_ALLOC), block, size)

\* brk_block: block->prev = last
brk_block_prev(s, block) == SetPrev(s, block, s.last)

\* brk_block: block->next = last->next
brk_block_next(s, block) == SetNext(s, block, b_next(s.mem, s.last))

\* brk_block: last->next = block; last = block
brk_block_last(s, block) == SetLast(SetNext(s, s.last, block), block)

\* brk_block: if (!last) ... else ...
brk_block_link(s, block) ==
  IF s.last = NULL
  THEN SetLast(SetPrev(SetNext(s, block, NULL), block, NULL), block)
  ELSE brk_block_last(brk_block_next(brk_block_prev(s, block), block), block)

\* brk_block(size): a new ALLOCATED block at the break, linked after `last`
brk_block(s, size) ==
  IF size = 0 THEN Return(s, NULL)
  ELSE IF sbrk_result(s) # s.brk THEN Die(s)
  ELSE Return(brk_block_link(brk_block_init(sbrk(s, size), s.brk, size), s.brk), s.brk)

\* split_block: new_block->size, ->status, ->prev
split_block_new(s, block, new_block, rem_size) ==
  SetPrev(SetStatus(SetSize(s, new_block, rem_size), new_block, STATUS_FREE),
          new_block, block)

\* split_block: new_block->next = block->next
split_block_next(s, block, new_block) ==
  SetNext(s, new_block, b_next(s.mem, block))

\* split_block: block->next = new_block; block->size = size
split_block_old(s, block, new_block, size) ==
  SetSize(SetNext(s, block, new_block), block, size)

\* split_block: if (new_block->next) new_block->next->prev = new_block
split_block_back(s, new_block) ==
  IF b_next(s.mem, new_block) # NULL
  THEN SetPrev(s, b_next(s.mem, new_block), new_block)
  ELSE s

\* split_block: if (last == block) last = new_block
split_block_last(s, block, new_block) ==
  IF s.last = block THEN SetLast(s, new_block) ELSE s

\* split_block(block, size): the first `size` bytes stay `block`, the rest
\* becomes a FREE block linked after it, when it can hold a header and 8 bytes
split_block(s, block, size) ==
  IF block = NULL THEN s
  ELSE IF ULt(b_size(s.mem, block) - size, META_SIZE + ALIGNMENT) THEN s
  ELSE IF ~HdrOk(s, block + size) THEN Segv(s)
  ELSE split_block_last(
         split_block_back(
           split_block_old(
             split_block_next(
               split_block_new(s, block, block + size, b_size(s.mem, block) - size),
               block, block + size),
             block, block + size, size),
           block + size),
         block, block + size)

\* coalesce_blocks: block->size += block->next->size
coalesce_add(s, block) ==
  SetSize(s, block, b_size(s.mem, block) + b_size(s.mem, b_next(s.mem, block)))

\* coalesce_blocks: block->next = block->next->next
coalesce_unlink(s, block) ==
  SetNext(s, block, b_next(s.mem, b_next(s.mem, block)))

\* coalesce_blocks: if (block->next) block->next->prev = block; else last = block
coalesce_relink(s, block) ==
  IF b_next(s.mem, block) # NULL
  THEN SetPrev(s, b_next(s.mem, block), block)
  ELSE SetLast(s, block)

\* the while loop of coalesce_blocks; a FREE block that is its own successor
\* is absorbed for ever
RECURSIVE coalesce_loop(_, _, _)
coalesce_loop(s, block, fuel) ==
  IF /\ b_next(s.mem, block) # NULL
     /\ b_status(s.mem, b_next(s.mem, block)) = STATUS_FREE
  THEN IF fuel = 0 \/ b_next(s.mem, block) = block THEN Hang(s)
       ELSE coalesce_loop(
              coalesce_relink(coalesce_unlink(coalesce_add(s, block), block), block),
              block, fuel - 1)
  ELSE s

\* a mutant of coalesce_blocks: only the first FREE successor is absorbed
coalesce_blocks_once(s, block) ==
  IF block = NULL \/ b_status(s.mem, block) # STATUS_FREE THEN s
  ELSE IF /\ b_next(s.mem, block) # NULL
          /\ b_status(s.mem, b_next(s.mem, block)) = STATUS_FREE
  THEN coalesce_relink(coalesce_unlink(coalesce_add(s, block), block), block)
  ELSE s

\* coalesce_blocks(block): a FREE block absorbs the FREE blocks that follow it
coalesce_blocks(s, block) ==
  IF block = NULL \/ b_status(s.mem, block) # STATUS_FREE THEN s
  ELSE coalesce_loop(s, block, Fuel(s))

\* the while loop of coalesce_everywhere
RECURSIVE coalesce_walk(_, _, _)
RECURSIVE coalesce_advance(_, _, _)
coalesce_walk(s, current, fuel) ==
  IF current = NULL \/ ~Running(s) THEN s
  ELSE IF fuel = 0 THEN Hang(s)
  ELSE coalesce_advance(
         IF b_status(s.mem, current) = STATUS_FREE THEN coalesce_blocks(s, current) ELSE s,
         current, fuel)

\* coalesce_everywhere: current = current->next
coalesce_advance(s, current, fuel) ==
  coalesce_walk(s, b_next(s.mem, current), fuel - 1)

\* coalesce_everywhere(): coalesce_blocks from every FREE block of the list
coalesce_everywhere(s) == coalesce_walk(s, s.global_base, Fuel(s))

\* find_best_fit: one block of the scan; best is <<best_fit, best_fit_size>>
best_fit_pick(m, size, current, best) ==
  IF /\ b_status(m, current) = STATUS_FREE
     /\ UGe(b_size(m, current), size)
     /\ ULt(b_size(m, current), best[2])
  THEN <<current, b_size(m, current)>>
  ELSE best

\* the scan of find_best_fit; the result is <<best_fit, best_fit_size>>,
\* or <<>> when the scan does not end
RECURSIVE best_fit_scan(_, _, _, _, _)
best_fit_scan(m, size, current, best, fuel) ==
  IF current = NULL THEN best
  ELSE IF fuel = 0 THEN <<>>
  ELSE best_fit_scan(m, size, b_next(m, current),
                     best_fit_pick(m, size, current, best), fuel - 1)

\* find_best_fit: the test for growing `last`
grow_last(s, size, best_fit_size) ==
  /\ b_status(s.mem, s.last) = STATUS_FREE
  /\ ULt(b_size(s.mem, s.last), size)
  /\ UGt(best_fit_size, size)

\* find_best_fit after the scan: a FREE `last` that is too small is grown to
\* `size` unless the scan found a block of exactly `size`
best_fit_result(s, size, best) ==
  IF best = <<>> THEN Hang(s)
  ELSE IF grow_last(s, size, best[2])
  THEN IF sbrk_result(s) = -1 THEN Return(s, best[1])
       ELSE Return(SetSize(sbrk(s, size - b_size(s.mem, s.last)), s.last, size), s.last)
  ELSE Return(s, best[1])

\* find_best_fit(size)
find_best_fit(s, size) ==
  best_fit_result(s, size,
    best_fit_scan(s.mem, size, s.global_base, <<NULL, SIZE_MAX>>, Fuel(s)))

\* a mutant of use_mmap: a block of exactly the threshold goes to the arena
use_mmap_above(blk_size) == UGt(blk_size, MMAP_THRESHOLD)

\* the test of os_malloc for the mapping path: blk_size >= MMAP_THRESHOLD
use_mmap(blk_size) == UGe(blk_size, MMAP_THRESHOLD)

\* os_malloc, mapping path, after mmap left the region in ret
os_malloc_mapped(s, blk_size) ==
  IF s.over THEN s
  ELSE Return(SetSize(SetStatus(s, s.ret, STATUS_MAPPED), s.ret, blk_size),
              s.ret + META_SIZE)

\* os_malloc: if (block->size > blk_size) split_block(block, blk_size),
\* for the block in ret
os_malloc_split(s, blk_size) ==
  IF UGt(b_size(s.mem, s.ret), blk_size) THEN split_block(s, s.ret, blk_size) ELSE s

\* os_malloc, first call: prealloc = 1; global_base = block; last = block
os_malloc_init(s) ==
  IF ~Running(s) THEN s
  ELSE [s EXCEPT !.prealloc = TRUE, !.global_base = s.ret, !.last = s.ret,
                 !.ret = s.ret + META_SIZE]

\* os_malloc: block->status = STATUS_ALLOC; return block + 1
os_malloc_take(s) ==
  IF ~Running(s) THEN s
  ELSE Return(SetStatus(s, s.ret, STATUS_ALLOC), s.ret + META_SIZE)

\* os_malloc: return block + 1
os_malloc_return(s) == Return(s, s.ret + META_SIZE)

\* os_malloc after find_best_fit left its result in ret
os_malloc_found(s, blk_size) ==
  IF ~Running(s) THEN s
  ELSE IF s.ret # NULL THEN os_malloc_take(os_malloc_split(s, blk_size))
  ELSE os_malloc_return(brk_block(s, blk_size))

\* os_malloc after coalesce_everywhere
os_malloc_search(s, blk_size) ==
  IF ~Running(s) THEN s ELSE os_malloc_found(find_best_fit(s, blk_size), blk_size)

\* os_malloc for a block of blk_size bytes
os_malloc_block(s, blk_size) ==
  IF use_mmap(blk_size)
  THEN IF mmap_fails(blk_size) THEN Die(s)
       ELSE os_malloc_mapped(mmap(s, blk_size), blk_size)
  ELSE IF ~s.prealloc
  THEN os_malloc_init(os_malloc_split(brk_block(s, MMAP_THRESHOLD), blk_size))
  ELSE os_malloc_search(coalesce_everywhere(s), blk_size)

\* os_malloc(size)
os_malloc(s, size) ==
  IF size = 0 THEN Return(s, NULL)
  ELSE os_malloc_block(s, ALIGN(size + META_SIZE))

\* a mutant of os_free: an arena block is left ALLOCATED
os_free_keeps(s, ptr) ==
  IF ptr = NULL \/ ~Running(s) THEN s
  ELSE IF ~HdrOk(s, ptr - META_SIZE) THEN Segv(s)
  ELSE IF b_status(s.mem, ptr - META_SIZE) = STATUS_FREE THEN s
  ELSE IF b_status(s.mem, ptr - META_SIZE) = STATUS_MAPPED
  THEN munmap(s, ptr - META_SIZE, b_size(s.mem, ptr - META_SIZE))
  ELSE s

\* a mutant of os_free: no test for FREE, everything that is not ALLOCATED
\* is unmapped
os_free_unmaps(s, ptr) ==
  IF ptr = NULL \/ ~Running(s) THEN s
  ELSE IF ~HdrOk(s, ptr - META_SIZE) THEN Segv(s)
  ELSE IF b_status(s.mem, ptr - META_SIZE) # STATUS_ALLOC
  THEN munmap(s, ptr - META_SIZE, b_size(s.mem, ptr - META_SIZE))
  ELSE SetStatus(s, ptr - META_SIZE, STATUS_FREE)

\* a mutant of os_free: the freed block absorbs the FREE blocks behind it
os_free_merges(s, ptr) ==
  IF ptr = NULL \/ ~Running(s) THEN s
  ELSE IF ~HdrOk(s, ptr - META_SIZE) THEN Segv(s)
  ELSE IF b_status(s.mem, ptr - META_SIZE) = STATUS_FREE THEN s
  ELSE IF b_status(s.mem, ptr - META_SIZE) = STATUS_MAPPED
  THEN munmap(s, ptr - META_SIZE, b_size(s.mem, ptr - META_SIZE))
  ELSE coalesce_blocks(SetStatus(s, ptr - META_SIZE, STATUS_FREE), ptr - META_SIZE)

\* os_free(ptr)
os_free(s, ptr) ==
  IF ptr = NULL \/ ~Running(s) THEN s
  ELSE IF ~HdrOk(s, ptr - META_SIZE) THEN Segv(s)
  ELSE IF b_status(s.mem, ptr - META_SIZE) = STATUS_FREE THEN s
  ELSE IF b_status(s.mem, ptr - META_SIZE) = STATUS_MAPPED
  THEN munmap(s, ptr - META_SIZE, b_size(s.mem, ptr - META_SIZE))
  ELSE SetStatus(s, ptr - META_SIZE, STATUS_FREE)

\* the record of a memcpy(dst, src, n) between two payloads: its length and
\* the usable sizes, at the time of the call, of the blocks copied from and to
Copied(s, dst, src, n) ==
  [s EXCEPT !.copies = Append(@, [n |-> n,
                                  old |-> b_size(s.mem, src - META_SIZE) - META_SIZE,
                                  new |-> b_size(s.mem, dst - META_SIZE) - META_SIZE])]

\* memset(p, 0, n) and memcpy(dst, src, n) on the machine state; touching a
\* byte that no page backs stops the process
Zero(s, p, n) ==
  IF ~Accessible(s, p, p + n) THEN Segv(s)
  ELSE [s EXCEPT !.mem = memset0(@, p, n)]

Copy(s, dst, src, n) ==
  IF ~Accessible(s, src, src + n) \/ ~Accessible(s, dst, dst + n) THEN Segv(Copied(s, dst, src, n))
  ELSE [Copied(s, dst, src, n) EXCEPT !.mem = memcpy(@, dst, src, n, s.cpy)]

\* os_calloc, mapping path, after mmap left the region in ret
os_calloc_mapped(s, blk_size) ==
  IF s.over THEN s
  ELSE Return(Zero(SetSize(SetStatus(s, s.ret, STATUS_MAPPED), s.ret, blk_size),
                   s.ret + META_SIZE, blk_size - META_SIZE),
              s.ret + META_SIZE)

\* os_calloc after os_malloc left its result in ret
os_calloc_small(s, blk_size) ==
  IF ~Running(s) \/ s.over THEN s
  ELSE IF s.ret # NULL THEN Zero(s, s.ret, blk_size - META_SIZE)
  ELSE Return(s, s.ret + META_SIZE)

\* a mutant of calloc_use_mmap: the threshold of os_malloc
calloc_use_mmap_threshold(blk_size) == UGe(blk_size, MMAP_THRESHOLD)

\* the test of os_calloc for the mapping path: blk_size >= PAGE_SIZE
calloc_use_mmap(blk_size) == UGe(blk_size, PAGE_SIZE)

\* os_calloc for a block of blk_size bytes
os_calloc_block(s, blk_size) ==
  IF calloc_use_mmap(blk_size)
  THEN IF mmap_fails(blk_size) THEN Die(s)
       ELSE os_calloc_mapped(mmap(s, blk_size), blk_size)
  ELSE os_calloc_small(os_malloc(s, blk_size - META_SIZE), blk_size)

\* os_calloc(nmemb, size)
os_calloc(s, nmemb, size) ==
  IF size = 0 \/ nmemb = 0 THEN Return(s, NULL)
  ELSE os_calloc_block(s, ALIGN(size * nmemb + META_SIZE))

\* a mutant of covers: a block of exactly the new size does not count
covers_strictly(m, block, new_size) == UGt(b_size(m, block), new_size)

\* the test of os_realloc for "existing block is larger":
\* block->size >= new_size
covers(m, block, new_size) == UGe(b_size(m, block), new_size)

\* os_realloc, last branch, after os_malloc left new_ptr in ret:
\* memcpy(new_ptr, ptr, new_block->size - META_SIZE); os_free(ptr); return new_ptr
realloc_copy(s, ptr) ==
  IF ~Running(s) \/ s.over THEN s
  ELSE IF s.ret = NULL THEN Die(s)
  ELSE Return(os_free(Copy(s, s.ret, ptr, b_size(s.mem, s.ret - META_SIZE) - META_SIZE),
                      ptr),
              s.ret)

\* os_realloc after coalesce_blocks(block)
realloc_merged(s, ptr, size, new_size) ==
  IF ~Running(s) THEN s
  ELSE IF covers(s.mem, ptr - META_SIZE, new_size)
  THEN Return(split_block(s, ptr - META_SIZE, new_size), ptr)
  ELSE realloc_copy(os_malloc(s, size), ptr)

\* os_realloc from "Existing block is larger" on
realloc_in_place(s, ptr, size, new_size) ==
  IF ~Running(s) THEN s
  ELSE IF ~HdrOk(s, ptr - META_SIZE) THEN Segv(s)
  ELSE IF covers(s.mem, ptr - META_SIZE, new_size)
  THEN Return(split_block(s, ptr - META_SIZE, new_size), ptr)
  ELSE IF ptr - META_SIZE = s.last
  THEN IF sbrk_result(s) = NULL THEN Die(s)
       ELSE Return(SetSize(sbrk(s, new_size - b_size(s.mem, ptr - META_SIZE)),
                      ptr - META_SIZE, new_size),
              ptr)
  ELSE realloc_merged(coalesce_blocks(s, ptr - META_SIZE), ptr, size, new_size)

\* os_realloc, branch for a MAPPED block or a new size at the threshold, after
\* os_malloc left new_ptr in ret: memcpy(new_ptr, ptr, block->size - META_SIZE);
\* os_free(ptr)
realloc_moved(s, ptr) ==
  IF ~Running(s) \/ s.over THEN s
  ELSE IF s.ret = NULL THEN Die(s)
  ELSE os_free(Copy(s, s.ret, ptr, b_size(s.mem, ptr - META_SIZE) - META_SIZE), ptr)

\* a mutant of realloc_release: null is returned and the block is kept
realloc_release_none(s, ptr) == Return(s, NULL)

\* os_realloc, size <= 0: os_free(ptr); return NULL
realloc_release(s, ptr) == Return(os_free(s, ptr), NULL)

\* os_realloc(ptr, size)
os_realloc(s, ptr, size) ==
  IF size = 0 THEN realloc_release(s, ptr)
  ELSE IF ptr = NULL THEN os_malloc(s, size)
  ELSE IF ~HdrOk(s, ptr - META_SIZE) THEN Segv(s)
  ELSE IF b_status(s.mem, ptr - META_SIZE) = STATUS_FREE THEN Return(s, NULL)
  ELSE IF \/ b_status(s.mem, ptr - META_SIZE) = STATUS_MAPPED
          \/ UGe(ALIGN(size + META_SIZE), MMAP_THRESHOLD)
  THEN realloc_in_place(realloc_moved(os_malloc(s, size), ptr),
                        ptr, size, ALIGN(size + META_SIZE))
  ELSE realloc_in_place(s, ptr, size, ALIGN(size + META_SIZE))

----------------------------------------------------------------------------
(* The program and its user *)

\* the arguments the user calls the allocator with: a small size, a size
\* that no free block of a fresh arena holds twice, and a size at the
\* mapping threshold
MallocSizes  == {100, 70000, 131040}
CallocArgs   == {<<10, 10>>, <<8, 512>>}
ReallocSizes == {0, 8, 100, 131040}
ReallocArgs  == (live \X ReallocSizes) \cup {<<NULL, 100>>}

\* degenerate arguments: zero, and negative numbers converted to size_t
ZeroSizes      == {0, -1, -100}
ZeroCallocArgs == {<<0, 8>>, <<8, 0>>, <<0, -1>>, <<-1, 0>>}

\* the machine state the C functions start from
M == [mem |-> mem, brk |-> brk, global_base |-> global_base, last |-> last,
      prealloc |-> prealloc, maps |-> maps, proc |-> proc,
      ret |-> NULL, over |-> FALSE, cpy |-> "move", nomem |-> FALSE,
      copies |-> <<>>]

\* what one call leaves behind, as kept in the history
Snapshot(s) == [mem |-> s.mem, brk |-> s.brk, global_base |-> s.global_base,
                last |-> s.last, prealloc |-> s.prealloc, maps |-> s.maps]

\* the last HistLen calls: operation, arguments, result, and the state left
HistLen == 3

Entry(op, a, b, s) ==
  [op |-> op, a |-> a, b |-> b, ret |-> s.ret, proc |-> s.proc, nomem |-> s.nomem,
   copies |-> s.copies, post |-> Snapshot(s)]

Push(h, e) == IF Len(h) < HistLen THEN Append(h, e) ELSE Append(Tail(h), e)

\* the pointers the user holds after a call: a returned pointer is held, a
\* pointer given to os_free, or moved by os_realloc, is not
Held(s, op, a, b) ==
  IF ~Running(s) THEN live
  ELSE IF op = "free" THEN live \ {a}
  ELSE IF op = "realloc" /\ (s.ret # NULL \/ b = 0) THEN (live \ {a}) \cup ({s.ret} \ {NULL})
  ELSE live \cup ({s.ret} \ {NULL})

\* the arena pointers the user has released and not been handed again
Released(s, op, a, b) ==
  IF ~Running(s) THEN freed
  ELSE IF op = "free" \/ (op = "realloc" /\ (s.ret # NULL \/ b = 0))
  THEN (freed \cup {p \in {a} : p # NULL /\ p < MmapBase}) \ {s.ret}
  ELSE freed \ {s.ret}

\* the call returns (or the process stops) with machine state s
Commit(s, op, a, b) ==
  /\ ~s.over
  /\ mem' = s.mem
  /\ brk' = s.brk
  /\ global_base' = s.global_base
  /\ last' = s.last
  /\ prealloc' = s.prealloc
  /\ maps' = s.maps
  /\ proc' = s.proc
  /\ live' = Held(s, op, a, b)
  /\ freed' = Released(s, op, a, b)
  /\ hist' = Push(hist, Entry(op, a, b, s))
  /\ nops' = nops + 1

CanCall == proc = "run" /\ nops < MaxOps

Init ==
  /\ mem = <<>>
  /\ brk = HeapStart
  /\ global_base = NULL
  /\ last = NULL
  /\ prealloc = FALSE
  /\ maps = {}
  /\ proc = "run"
  /\ live = {}
  /\ freed = {}
  /\ hist = <<Entry("init", 0, 0, M)>>
  /\ nops = 0

\* p = os_malloc(size)
Allocate(size) == CanCall /\ Commit(os_malloc(M, size), "malloc", size, 0)

\* p = os_calloc(nmemb, size)
ZeroAllocate(nmemb, size) ==
  CanCall /\ Commit(os_calloc(M, nmemb, size), "calloc", nmemb, size)

\* os_free(ptr), of a pointer the user holds or has released before
Release(ptr) == CanCall /\ Commit(os_free(M, ptr), "free", ptr, 0)

\* q = os_realloc(ptr, size), of a pointer the user holds, or of NULL
Resize(ptr, size) ==
  /\ CanCall
  /\ \E order \in CopyOrders :
       Commit(os_realloc([M EXCEPT !.cpy = order], ptr, size), "realloc", ptr, size)

Next ==
  \/ \E size \in MallocSizes : Allocate(size)
  \/ \E a \in CallocArgs : ZeroAllocate(a[1], a[2])
  \/ \E ptr \in live \cup freed : Release(ptr)
  \/ \E a \in ReallocArgs : Resize(a[1], a[2])

Spec == Init /\ [][Next]_vars

\* the same program, called with degenerate arguments as well
NextAny ==
  \/ Next
  \/ \E size \in ZeroSizes : Allocate(size)
  \/ \E a \in ZeroCallocArgs : ZeroAllocate(a[1], a[2])
  \/ Resize(NULL, 0)
  \/ Release(NULL)

SpecAny == Init /\ [][NextAny]_vars

\* the machine state of a call during which the system has no memory for
\* the heap: every sbrk of the call fails
NoMem == [M EXCEPT !.nomem = TRUE]

\* the sizes os_realloc is called with while sbrk fails
StarvedSizes == {100, 200}

AllocateStarved(size) == CanCall /\ Commit(os_malloc(NoMem, size), "malloc", size, 0)

ZeroAllocateStarved(nmemb, size) ==
  CanCall /\ Commit(os_calloc(NoMem, nmemb, size), "calloc", nmemb, size)

ResizeStarved(ptr, size) ==
  /\ CanCall
  /\ \E order \in CopyOrders :
       Commit(os_realloc([NoMem EXCEPT !.cpy = order], ptr, size), "realloc", ptr, size)

\* the same program on a system whose sbrk can fail
NextNoMem ==
  \/ Next
  \/ \E size \in MallocSizes : AllocateStarved(size)
  \/ \E a \in CallocArgs : ZeroAllocateStarved(a[1], a[2])
  \/ \E a \in live \X StarvedSizes : ResizeStarved(a[1], a[2])

SpecNoMem == Init /\ [][NextNoMem]_vars

----------------------------------------------------------------------------
(* Vocabulary of the properties *)

\* the blocks reachable from global_base by following next, in list order
\* (a list that runs into a cycle is cut where it closes)
RECURSIVE ListWalk(_, _, _)
ListWalk(m, current, acc) ==
  IF current = NULL \/ \E i \in 1..Len(acc) : acc[i] = current THEN acc
  ELSE ListWalk(m, b_next(m, current), Append(acc, current))

ListSeq(m, base) == ListWalk(m, base, <<>>)
ListSet(m, base) == {ListSeq(m, base)[i] : i \in 1..Len(ListSeq(m, base))}

\* the last call, the state it was made in, and the calls before it
Last   == hist[Len(hist)]
Before == hist[Len(hist) - 1].post
Ago(k) == hist[Len(hist) - k]
Now    == Snapshot(M)
Called(op) == Len(hist) >= 2 /\ Last.op = op
Returned(e) == e.proc = "run"

\* the machine in the state a snapshot recorded
Mach(snap) == [mem |-> snap.mem, brk |-> snap.brk, global_base |-> snap.global_base,
               last |-> snap.last, prealloc |-> snap.prealloc, maps |-> snap.maps,
               proc |-> "run", ret |-> NULL, over |-> FALSE, cpy |-> "move", nomem |-> FALSE,
               copies |-> <<>>]

\* the aligned block size of a request
BlkSize(size) == ALIGN(size + META_SIZE)
Small(size) == size > 0 /\ BlkSize(size) < MMAP_THRESHOLD
Large(size) == size > 0 /\ BlkSize(size) >= MMAP_THRESHOLD

\* the FREE blocks of a list that hold blk bytes, as positions in list order
Fits(m, base, blk) ==
  {i \in 1..Len(ListSeq(m, base)) :
     /\ b_status(m, ListSeq(m, base)[i]) = STATUS_FREE
     /\ b_size(m, ListSeq(m, base)[i]) >= blk}

\* the smallest of them, the first in list order among equals
BestOf(m, base, blk) ==
  LET l == ListSeq(m, base)
      i == CHOOSE i \in Fits(m, base, blk) :
             \A j \in Fits(m, base, blk) :
               \/ b_size(m, l[i]) < b_size(m, l[j])
               \/ b_size(m, l[i]) = b_size(m, l[j]) /\ i <= j
  IN l[i]

\* the last call was a small-object os_malloc on an initialised arena that
\* returned, and AfterPass is the machine after its coalescing pass
SmallAlloc == Called("malloc") /\ Small(Last.a) /\ Before.prealloc /\ Returned(Last)
AfterPass == coalesce_everywhere(Mach(Before))

----------------------------------------------------------------------------
(* Properties *)

\* C1: the payload of every ALLOCATED block of the list lies below the heap
\* break and holds no byte of the header of another block of the list
C1_PayloadsDisjoint ==
  \A b \in ListSet(mem, global_base) :
    b_status(mem, b) = STATUS_ALLOC =>
      /\ b + b_size(mem, b) <= brk
      /\ \A c \in ListSet(mem, global_base) \ {b} :
           c + META_SIZE <= b + META_SIZE \/ c >= b + b_size(mem, b)

\* C2: when os_realloc(p, s), s > 0, of a non-FREE block returns, it returns
\* the payload of an ALLOCATED block or of a live MAPPED block that has at
\* least s usable bytes
C2_ResizeResult ==
  ( /\ Called("realloc") /\ Last.a # NULL /\ Last.b > 0
    /\ b_status(Before.mem, Last.a - META_SIZE) # STATUS_FREE
    /\ Returned(Last) ) =>
      /\ Last.ret # NULL
      /\ LET q == Last.ret - META_SIZE
         IN /\ \/ b_status(mem, q) = STATUS_ALLOC
               \/ b_status(mem, q) = STATUS_MAPPED /\ \E r \in maps : r.base = q
            /\ b_size(mem, q) - META_SIZE >= Last.b

\* C3: once the arena is initialised, last is the block of the list with
\* the highest address
C3_LastIsHighest ==
  prealloc => /\ last \in ListSet(mem, global_base)
              /\ \A b \in ListSet(mem, global_base) : b <= last

\* C4: a small-object allocation returns the best-fitting FREE block left by
\* the coalescing pass, when there is one
C4_BestFit ==
  (SmallAlloc /\ Fits(AfterPass.mem, AfterPass.global_base, BlkSize(Last.a)) # {}) =>
     Last.ret = BestOf(AfterPass.mem, AfterPass.global_base, BlkSize(Last.a)) + META_SIZE

\* C5: a small-object allocation leaves the heap break where it is when the
\* coalescing pass leaves a FREE block that fits
C5_NoGrowthWhenFit ==
  (SmallAlloc /\ Fits(AfterPass.mem, AfterPass.global_base, BlkSize(Last.a)) # {}) =>
     brk = Before.brk

\* the last three calls were p = os_malloc(n), os_free(p), q = os_malloc(n)
\* for a small n, and all returned
AllocFreeAlloc ==
  /\ Len(hist) >= 3
  /\ Ago(2).op = "malloc" /\ Small(Ago(2).a) /\ Returned(Ago(2)) /\ Ago(2).ret # NULL
  /\ Ago(1).op = "free" /\ Ago(1).a = Ago(2).ret /\ Returned(Ago(1))
  /\ Ago(0).op = "malloc" /\ Ago(0).a = Ago(2).a /\ Returned(Ago(0))

AllocThenResize ==
  /\ Len(hist) >= 2
  /\ Ago(1).op = "malloc" /\ Ago(1).a > 0 /\ Returned(Ago(1)) /\ Ago(1).ret # NULL
  /\ Ago(0).op = "realloc" /\ Ago(0).a = Ago(1).ret /\ Ago(0).b = Ago(1).a

\* C7 as stated: Resize(Allocate(n), n) returns the address Allocate(n)
\* returned, for every positive n
C7_SameSizeResize ==
  AllocThenResize => Returned(Ago(0)) /\ Ago(0).ret = Ago(1).ret

\* C7 as amended: Resize(Allocate(n), n) returns the address Allocate(n)
\* returned, for every positive n whose aligned block size is below the
\* mapping threshold
C7_SameSizeResizeSmall ==
  (AllocThenResize /\ Small(Ago(1).a)) => Returned(Ago(0)) /\ Ago(0).ret = Ago(1).ret

C7_Witness == AllocThenResize /\ Small(Ago(1).a) /\ Returned(Ago(0)) /\ nops >= 3

\* the last two calls were p = os_malloc(size), os_free(p) for a size at or
\* above the mapping threshold
LargeAllocFree ==
  /\ Len(hist) >= 3
  /\ Ago(1).op = "malloc" /\ Large(Ago(1).a) /\ Returned(Ago(1)) /\ Ago(1).ret # NULL
  /\ Ago(0).op = "free" /\ Ago(0).a = Ago(1).ret

\* C8: Allocate(size) at or above the mapping threshold followed by Release
\* of the result leaves break, global_base, last, prealloc and all of memory
\* as they were before the Allocate; the block was never in the list and its
\* region is unmapped again
C8_LargeRoundTrip ==
  LargeAllocFree =>
    LET blk == Ago(1).ret - META_SIZE
    IN /\ Returned(Ago(0))
       /\ Now = Ago(2).post
       /\ blk \notin ListSet(Ago(1).post.mem, Ago(1).post.global_base)
       /\ [Ago(1).post EXCEPT !.mem = Clear(@, MmapBase, MmapBase + MaxMaps * MmapStride),
                              !.maps = {}]
          = [Ago(2).post EXCEPT !.mem = Clear(@, MmapBase, MmapBase + MaxMaps * MmapStride),
                                !.maps = {}]
       /\ b_status(Ago(1).post.mem, blk) = STATUS_MAPPED
       /\ \A r \in maps : r.base # blk

C8_Witness == LargeAllocFree /\ prealloc /\ Returned(Ago(0))

\* C9: Allocate(0), Allocate(negative), ZeroAllocate(0, k) and
\* ZeroAllocate(k, 0) return null and change nothing
C9_NullOnDegenerate ==
  ( \/ Called("malloc") /\ Last.a <= 0
    \/ Called("calloc") /\ (Last.a = 0 \/ Last.b = 0) ) =>
      Returned(Last) /\ Last.ret = NULL /\ Now = Before

\* C10: Release of an arena pointer whose block is already FREE changes
\* nothing
C10_DoubleRelease ==
  ( /\ Called("free") /\ Last.a # NULL /\ Last.a < MmapBase
    /\ b_status(Before.mem, Last.a - META_SIZE) = STATUS_FREE ) =>
      Returned(Last) /\ Now = Before

C10_Witness ==
  /\ Len(hist) >= 3
  /\ Ago(1).op = "free" /\ Ago(0).op = "free" /\ Ago(0).a = Ago(1).a
  /\ Ago(0).a # NULL /\ Ago(0).a < MmapBase
  /\ b_status(Before.mem, Last.a - META_SIZE) = STATUS_FREE

\* the last call was os_realloc(p, 0) of a pointer whose block was not FREE
ResizeToZero ==
  /\ Called("realloc") /\ Last.b = 0 /\ Last.a # NULL
  /\ b_status(Before.mem, Last.a - META_SIZE) # STATUS_FREE

\* what os_free(p) leaves of the state `snap`: a MAPPED block is unmapped,
\* any other block has its status set to FREE and nothing else changes
AfterRelease(snap, p) ==
  IF b_status(snap.mem, p - META_SIZE) = STATUS_MAPPED
  THEN [snap EXCEPT !.maps = {r \in @ : r.base # p - META_SIZE},
                    !.mem = Clear(@, p - META_SIZE,
                                  p - META_SIZE + PageUp(b_size(snap.mem, p - META_SIZE)))]
  ELSE [snap EXCEPT !.mem = Wr(@, p - META_SIZE + OFF_STATUS, STATUS_FREE)]

\* C11: os_realloc(p, 0) of a non-FREE block returns null and leaves the
\* state os_free(p) leaves (the block FREE and nothing merged, or the region
\* unmapped); os_realloc(NULL, 0) returns null and changes nothing
C11_ResizeToZero ==
  /\ ResizeToZero =>
       /\ Returned(Last) /\ Last.ret = NULL
       /\ Now = AfterRelease(Before, Last.a)
       /\ Now # Before
  /\ (Called("realloc") /\ Last.b = 0 /\ Last.a = NULL) =>
       Returned(Last) /\ Last.ret = NULL /\ Now = Before

\* os_realloc(p, 0) of an ALLOCATED block that is followed by a FREE block
C11_Witness ==
  /\ ResizeToZero
  /\ b_status(Before.mem, Last.a - META_SIZE) = STATUS_ALLOC
  /\ b_next(Before.mem, Last.a - META_SIZE) # NULL
  /\ b_status(Before.mem, b_next(Before.mem, Last.a - META_SIZE)) = STATUS_FREE
  /\ b_size(mem, Last.a - META_SIZE) = b_size(Before.mem, Last.a - META_SIZE)

\* the arena part of a snapshot: everything but the mapped regions
Arena(snap) ==
  [snap EXCEPT !.mem = Clear(@, MmapBase, MmapBase + MaxMaps * MmapStride),
               !.maps = {}]

\* the last call was os_calloc(count, size) with both positive
ZeroAlloc == Called("calloc") /\ Last.a > 0 /\ Last.b > 0

\* C12: an os_calloc(count, size) that returns has mapped a region exactly
\* when the aligned block size is at least a page: the block is then MAPPED
\* and the arena is as it was; otherwise the block is the ALLOCATED block of
\* the arena that os_malloc returns for the aligned block size minus the
\* header
C12_ZeroAllocatePath ==
  (ZeroAlloc /\ Returned(Last)) =>
    /\ Last.ret # NULL
    /\ IF BlkSize(Last.a * Last.b) >= PAGE_SIZE
       THEN /\ b_status(mem, Last.ret - META_SIZE) = STATUS_MAPPED
            /\ b_size(mem, Last.ret - META_SIZE) = BlkSize(Last.a * Last.b)
            /\ \E r \in maps \ Before.maps : r.base = Last.ret - META_SIZE
            /\ Arena(Now) = Arena(Before)
       ELSE /\ b_status(mem, Last.ret - META_SIZE) = STATUS_ALLOC
            /\ Last.ret - META_SIZE >= HeapStart
            /\ Last.ret - META_SIZE < MmapBase
            /\ maps = Before.maps
            /\ Last.ret = os_malloc(Mach(Before), BlkSize(Last.a * Last.b) - META_SIZE).ret

\* os_calloc of a block of at least a page and less than the mapping
\* threshold, on an initialised arena
C12_Witness ==
  /\ ZeroAlloc /\ Returned(Last) /\ Before.prealloc
  /\ BlkSize(Last.a * Last.b) >= PAGE_SIZE
  /\ BlkSize(Last.a * Last.b) < MMAP_THRESHOLD

\* a block size the allocator may give a block: a multiple of 8 that holds a
\* header and 8 bytes
GoodSize(n) == n % ALIGNMENT = 0 /\ n >= META_SIZE + ALIGNMENT

\* C13: while the process runs, every block of the list and every live
\* MAPPED block has a size that is a multiple of 8 and at least header
\* size + 8
C13_BlockSizes ==
  proc = "run" =>
  /\ \A b \in ListSet(mem, global_base) : GoodSize(b_size(mem, b))
  /\ \A r \in maps : GoodSize(b_size(mem, r.base))

\* no FREE block of the list is followed by a FREE block
NoFreePair(m, base) ==
  \A b \in ListSet(m, base) :
    (b_status(m, b) = STATUS_FREE /\ b_next(m, b) # NULL) =>
       b_status(m, b_next(m, b)) # STATUS_FREE

\* the last call was a small-object os_malloc on an initialised arena
SmallCall == Called("malloc") /\ Small(Last.a) /\ Before.prealloc

\* C14: the coalescing pass at the start of a small-object os_malloc, when
\* it ends, leaves no FREE block of the list followed by a FREE block
C14_NoFreePairAfterPass ==
  (SmallCall /\ Running(AfterPass)) =>
    NoFreePair(AfterPass.mem, AfterPass.global_base)

\* a pass that found a FREE block followed by two FREE blocks
C14_Witness ==
  /\ SmallCall /\ Returned(Last)
  /\ \E b \in ListSet(Before.mem, Before.global_base) :
       /\ b_status(Before.mem, b) = STATUS_FREE
       /\ b_next(Before.mem, b) # NULL
       /\ b_status(Before.mem, b_next(Before.mem, b)) = STATUS_FREE
       /\ b_next(Before.mem, b_next(Before.mem, b)) # NULL
       /\ b_status(Before.mem, b_next(Before.mem, b_next(Before.mem, b))) = STATUS_FREE

\* the last call was os_realloc(p, s), s > 0, of a block that was MAPPED, or
\* of a block that was not FREE with a new aligned size at or above the
\* mapping threshold
RelocatingResize ==
  /\ Called("realloc") /\ Last.a # NULL /\ Last.b > 0
  /\ b_status(Before.mem, Last.a - META_SIZE) # STATUS_FREE
  /\ \/ b_status(Before.mem, Last.a - META_SIZE) = STATUS_MAPPED
     \/ BlkSize(Last.b) >= MMAP_THRESHOLD

\* a block is released in the current state: FREE in the arena, or unmapped
ReleasedNow(blk) ==
  IF blk >= MmapBase THEN \A r \in maps : r.base # blk
  ELSE b_status(mem, blk) = STATUS_FREE

\* C15: os_realloc of a MAPPED block, or to a size at or above the mapping
\* threshold, returns the address of one fresh region, not p, with the old
\* block released, and does nothing after that: the process runs on and the
\* heap break moves only for the fresh region
C15_RelocateOnly ==
  RelocatingResize =>
    /\ Returned(Last)
    /\ Last.ret # NULL /\ Last.ret # Last.a
    /\ ReleasedNow(Last.a - META_SIZE)
    /\ Large(Last.b) => brk = Before.brk

\* the combined size of the run of FREE blocks that starts at b
RECURSIVE FreeRun(_, _, _)
FreeRun(m, b, fuel) ==
  IF b = NULL \/ fuel = 0 \/ b_status(m, b) # STATUS_FREE THEN 0
  ELSE b_size(m, b) + FreeRun(m, b_next(m, b), fuel - 1)

\* the last call was os_realloc(p, s) of an ALLOCATED list block that is not
\* the tail (it has a successor, and `last` is another block), is smaller
\* than the new aligned size, and covers it together with the FREE blocks
\* that follow it
GrowIntoSuccessors ==
  /\ Called("realloc") /\ Last.a # NULL /\ Small(Last.b)
  /\ Last.a - META_SIZE \in ListSet(Before.mem, Before.global_base)
  /\ b_status(Before.mem, Last.a - META_SIZE) = STATUS_ALLOC
  /\ b_next(Before.mem, Last.a - META_SIZE) # NULL
  /\ Last.a - META_SIZE # Before.last
  /\ b_size(Before.mem, Last.a - META_SIZE) < BlkSize(Last.b)
  /\ b_size(Before.mem, Last.a - META_SIZE)
       + FreeRun(Before.mem, b_next(Before.mem, Last.a - META_SIZE),
                 Cardinality(DOMAIN Before.mem))
     >= BlkSize(Last.b)

\* C16: such an os_realloc absorbs the FREE successors and returns p, with
\* the heap break where it was
C16_AbsorbSuccessors ==
  GrowIntoSuccessors =>
    /\ Returned(Last)
    /\ Last.ret = Last.a
    /\ brk = Before.brk
    /\ b_size(mem, Last.a - META_SIZE) >= BlkSize(Last.b)

\* the last call was os_realloc(p, s) of the ALLOCATED block `last` points
\* to, too small for the new aligned size, which is below the mapping
\* threshold, made while sbrk fails
StarvedExtension ==
  /\ Called("realloc") /\ Last.nomem
  /\ Last.a # NULL /\ Small(Last.b)
  /\ b_status(Before.mem, Last.a - META_SIZE) = STATUS_ALLOC
  /\ Last.a - META_SIZE = Before.last
  /\ b_size(Before.mem, Last.a - META_SIZE) < BlkSize(Last.b)

\* C17: when sbrk fails while os_realloc extends the tail block in place,
\* the process is terminated: the call does not return and the size of the
\* block is not set to the new size
C17_FatalOnFailedExtension ==
  StarvedExtension =>
    /\ Last.proc = "die"
    /\ b_size(mem, Last.a - META_SIZE) = b_size(Before.mem, Last.a - META_SIZE)

\* C18: every memcpy of an os_realloc copies at most the usable size of the
\* old block and at most the usable size of the new block
C18_CopyFits ==
  Called("realloc") =>
    \A i \in 1..Len(Last.copies) :
      /\ Last.copies[i].n <= Last.copies[i].old
      /\ Last.copies[i].n <= Last.copies[i].new

\* C19: once the arena is initialised and while the process runs, the list
\* from global_base ends at null without meeting a block twice, the first
\* block has no predecessor, and every successor points back to its
\* predecessor
C19_WellFormedList ==
  (prealloc /\ proc = "run") =>
    /\ global_base # NULL
    /\ b_next(mem, ListSeq(mem, global_base)[Len(ListSeq(mem, global_base))]) = NULL
    /\ b_prev(mem, global_base) = NULL
    /\ \A b \in ListSet(mem, global_base) :
         b_next(mem, b) # NULL => b_prev(mem, b_next(mem, b)) = b

\* the last call was os_free(p) of an ALLOCATED block of the arena
ReleaseAllocated ==
  /\ Called("free") /\ Last.a # NULL /\ Last.a < MmapBase
  /\ b_status(Before.mem, Last.a - META_SIZE) = STATUS_ALLOC

\* C20: os_free of an ALLOCATED arena block sets the status of that block to
\* FREE and changes nothing else: not its size or links, not another block,
\* not global_base, last or the heap break
C20_ReleaseOnlyFlipsStatus ==
  ReleaseAllocated =>
    /\ Returned(Last)
    /\ Now = [Before EXCEPT !.mem = Wr(@, Last.a - META_SIZE + OFF_STATUS, STATUS_FREE)]
    /\ b_status(mem, Last.a - META_SIZE) = STATUS_FREE

\* os_free of an ALLOCATED block whose successor is FREE
C20_Witness ==
  /\ ReleaseAllocated /\ Returned(Last)
  /\ b_next(Before.mem, Last.a - META_SIZE) # NULL
  /\ b_status(Before.mem, b_next(Before.mem, Last.a - META_SIZE)) = STATUS_FREE
  /\ b_status(mem, b_next(mem, Last.a - META_SIZE)) = STATUS_FREE

====
